---- MODULE Spec2Model ----
(***************************************************************************)
(* xbuoy: retrieval, normalisation and merge of NDBC buoy records.         *)
(*                                                                         *)
(* The model follows one call of the public API from its entry to its      *)
(* return (or to the exception that leaves it):                            *)
(*   get_station_records  (data_retrieval.py)                              *)
(*   fetch_data, list_stations  (core.py)                                  *)
(*   get_historical_bounds, fetch_station_historical_bounds,               *)
(*   get_buoy_metadata, get_buoy_stations  (station_metadata.py)           *)
(*   add_latitude_longitude  (data_processing.py)                          *)
(* The remote services (the NDBC locator service, the per-year files, the  *)
(* station table) are the environment: each answer is drawn when the code  *)
(* asks for it.                                                            *)
(***************************************************************************)
EXTENDS Naturals, Integers, Sequences, FiniteSets, TLC

\* ---------------------------------------------------------------- bounds
NStations == 2      \* buoy stations of the catalog, ids 1..NStations
NYears    == 2      \* the longest list of requested years
MaxDay    == 2      \* cadence buckets (days) a year file can cover: 1..MaxDay
MaxCpu    == 3      \* os.cpu_count() is 1 or MaxCpu

Station == 1..NStations
Year    == 1..NYears
Day     == 1..MaxDay

\* np.nan: the missing value of a float cell.
NaN == -1

\* ------------------------------------------------------------ sequences
Range(q) == {q[i] : i \in DOMAIN q}

\* The sequences over S, of length n, without a repeated element.
DistinctSeqs(S, n) ==
    {q \in [1..n -> S] : \A i, j \in 1..n : i # j => q[i] # q[j]}

\* The elements of a finite set of integers in increasing order.
RECURSIVE SortedSeq(_)
SortedSeq(S) ==
    IF S = {} THEN <<>>
    ELSE LET m == CHOOSE x \in S : \A y \in S : x <= y
         IN  <<m>> \o SortedSeq(S \ {m})

Max(a, b) == IF a >= b THEN a ELSE b

\* --------------------------------------------------- extract_historical_year
\* What the remote side answers to one (station, year) request.  A failure is
\* one of the exceptions the body of extract_historical_year can raise:
\*   NotFound     historical_df[str(yr)] has no such column (KeyError)
\*   Unreachable  the locator service or the file cannot be read
\*   Malformed    pd.read_csv cannot parse the file
\*   BadTime      pd.to_datetime rejects a row's date fields
\* A success is a file whose rows fall in the cadence buckets lo..hi.
FailureKind == {"NotFound", "Unreachable", "Malformed", "BadTime"}
Response ==
    [kind : FailureKind, lo : {0}, hi : {0}]
    \cup {r \in [kind : {"ok"}, lo : Day, hi : Day] : r.lo <= r.hi}

\* The value file yr holds for bucket t: every (file, bucket) has a value of
\* its own, so a record of a series tells which file it was taken from.
Measured(yr, t) == 10 * yr + t

\* The None an extraction returns, and the dataset it returns otherwise: the
\* records of the resampled file, one per bucket from the first to the last.
None == [none |-> TRUE, recs |-> <<>>]
Resampled(yr, resp) ==
    [none |-> FALSE,
     recs |-> [k \in 1..(resp.hi - resp.lo + 1) |->
                 [time |-> resp.lo + k - 1,
                  WTMP |-> Measured(yr, resp.lo + k - 1)]]]

\* extract_historical_year: the whole body is inside try/except Exception,
\* and the handler returns None.
extract_historical_year(yr, resp) ==
    IF resp.kind = "ok"
    THEN [exc |-> "none", ret |-> Resampled(yr, resp)]
    ELSE [exc |-> "none", ret |-> None]

\* ------------------------------------------------------- xarray operations
\* [r for r in results if r is not None]
RECURSIVE FilterNone(_)
FilterNone(results) ==
    IF results = <<>> THEN <<>>
    ELSE IF Head(results).none THEN FilterNone(Tail(results))
         ELSE <<Head(results)>> \o FilterNone(Tail(results))

\* xr.concat(results, dim="time"): the records of the datasets, one dataset
\* after the other in the order of the list.
RECURSIVE Concat(_)
Concat(results) ==
    IF results = <<>> THEN <<>>
    ELSE Head(results).recs \o Concat(Tail(results))

\* One step of a stable sort: x goes behind every record whose time is not
\* later than its own.
RECURSIVE InsertByTime(_, _)
InsertByTime(x, sorted) ==
    IF sorted = <<>> THEN <<x>>
    ELSE IF Head(sorted).time <= x.time
         THEN <<Head(sorted)>> \o InsertByTime(x, Tail(sorted))
         ELSE <<x>> \o sorted

\* .sortby("time"): np.lexsort, a stable sort on the time coordinate.
RECURSIVE SortByTime(_)
SortByTime(recs) ==
    IF recs = <<>> THEN <<>>
    ELSE InsertByTime(recs[Len(recs)], SortByTime(SubSeq(recs, 1, Len(recs) - 1)))

\* No drop_duplicates at all: every record stays.
KeepDuplicates(recs) == recs

\* drop_duplicates with keep="last": a record stays when no later record has
\* its time.
DropDuplicatesKeepLast(recs) ==
    LET idx == SelectSeq([i \in 1..Len(recs) |-> i],
                 LAMBDA i : \A j \in (i + 1)..Len(recs) : recs[j].time # recs[i].time)
    IN  [k \in 1..Len(idx) |-> recs[idx[k]]]

\* .drop_duplicates("time") (keep="first"): a record stays when no earlier
\* record has its time.
DropDuplicates(recs) ==
    LET idx == SelectSeq([i \in 1..Len(recs) |-> i],
                 LAMBDA i : \A j \in 1..(i - 1) : recs[j].time # recs[i].time)
    IN  [k \in 1..Len(idx) |-> recs[idx[k]]]

\* A dataset: the station_id and time axes, the names of its data variables,
\* the WTMP values per station and time, and, once they are attached,
\* latitude, longitude and WTMP_coverage per station.
\* xr.merge([]) is the dataset without any dimension or variable.
EmptyDataset ==
    [station_id |-> <<>>, time |-> <<>>, data_vars |-> {}, WTMP |-> <<>>,
     latitude |-> <<>>, longitude |-> <<>>, WTMP_coverage |-> <<>>]

\* The value of station dataset d at time t, NaN where d has no record.
ValueAt(d, t) ==
    IF \E k \in DOMAIN d.recs : d.recs[k].time = t
    THEN d.recs[CHOOSE k \in DOMAIN d.recs : d.recs[k].time = t].WTMP
    ELSE NaN

\* xr.merge(xxsdf): an outer join of the station datasets on station_id and
\* on time; a cell no station dataset fills is NaN.
xr_merge(xxsdf) ==
    LET ids   == {xxsdf[k].station_id : k \in DOMAIN xxsdf}
        times == UNION {{xxsdf[k].recs[n].time : n \in DOMAIN xxsdf[k].recs} :
                        k \in DOMAIN xxsdf}
        of(s) == xxsdf[CHOOSE k \in DOMAIN xxsdf : xxsdf[k].station_id = s]
    IN  [station_id |-> SortedSeq(ids),
         time       |-> SortedSeq(times),
         data_vars  |-> IF xxsdf = <<>> THEN {} ELSE {"WTMP"},
         WTMP       |-> [s \in ids |-> [t \in times |-> ValueAt(of(s), t)]],
         latitude   |-> <<>>,
         longitude  |-> <<>>,
         WTMP_coverage |-> <<>>]

\* --------------------------------------------------------- station_metadata
\* The station table, in the order of its rows: the buoys 1..NStations and,
\* first, a station 0 that is no buoy.  LOCATION is "<lat> <N|S> <lon> <E|W>".
TableIds == [k \in 1..(NStations + 1) |-> k - 1]
TableRow(s) ==
    [station_id |-> s,
     ttype      |-> IF s = 0 THEN "Fixed" ELSE "Buoy",
     latnum     |-> 10 * s,
     latdir     |-> IF s % 2 = 1 THEN "N" ELSE "S",
     lonnum     |-> 20 * s,
     londir     |-> IF s % 2 = 1 THEN "W" ELSE "E"]

_latitude_sign(direction)  == IF direction = "N" THEN 1 ELSE -1
_longitude_sign(direction) == IF direction = "E" THEN 1 ELSE -1
_get_latitude(number, direction)  == number * _latitude_sign(direction)
_get_longitude(number, direction) == number * _longitude_sign(direction)

\* stations[stations.iloc[:, 2].str.lower().str.contains("buoy")], and the
\* ids of the rows that are left, in the order of the table.
BuoyIds == SelectSeq(TableIds, LAMBDA s : TableRow(s).ttype = "Buoy")

\* A year key is a string of digits; n stands for the string str(n).
RECURSIVE Str(_)
Str(n) == IF n < 10 THEN <<n>> ELSE Str(n \div 10) \o <<n % 10>>

\* a < b for two strings, as numpy compares them: by the first character
\* that differs, a proper prefix before the longer string.
RECURSIVE StrLess(_, _)
StrLess(a, b) ==
    IF b = <<>> THEN FALSE
    ELSE IF a = <<>> THEN TRUE
    ELSE IF Head(a) # Head(b) THEN Head(a) < Head(b)
    ELSE StrLess(Tail(a), Tail(b))

\* The columns api.available_historical can answer with: a year key, or a
\* name with a space in it (key 0); na says that the first row holds no
\* locator in the column.
KeyPool == {9, 10}
Column == [key : KeyPool, space : {FALSE}, na : BOOLEAN]
          \cup [key : {0}, space : {TRUE}, na : BOOLEAN]
BoundsResponse ==
    [kind : {"Unreachable"}, cols : {{}}]
    \cup [kind : {"ok"}, cols : {c \in SUBSET Column :
                                   \A x, y \in c : x.key = y.key => x = y}]

Unknown == [known |-> FALSE, min_year |-> NaN, max_year |-> NaN]

\* The names get_historical_bounds takes min and max of: the columns whose
\* first row is not NA (.iloc[[0], :].dropna(axis=1)) and whose name holds
\* no space.
AvailableHistorical(resp) == {c.key : c \in {x \in resp.cols : ~x.na /\ ~x.space}}

StrMin(keys) == CHOOSE k \in keys : \A o \in keys : o = k \/ StrLess(Str(k), Str(o))
StrMax(keys) == CHOOSE k \in keys : \A o \in keys : o = k \/ StrLess(Str(o), Str(k))

\* get_historical_bounds whose except clause misses the ValueError of min()
\* on an empty array.
BoundsRaisingOnEmpty(sid, resp) ==
    IF resp.kind # "ok"
    THEN [exc |-> "none", station_id |-> sid, bounds |-> Unknown]
    ELSE IF AvailableHistorical(resp) = {}
    THEN [exc |-> "ValueError", station_id |-> sid, bounds |-> Unknown]
    ELSE [exc |-> "none", station_id |-> sid,
          bounds |-> [known    |-> TRUE,
                      min_year |-> StrMin(AvailableHistorical(resp)),
                      max_year |-> StrMax(AvailableHistorical(resp))]]

\* get_historical_bounds: min and max of the available names as strings.  A
\* failing request, and min() of no name at all, end in the except clause,
\* which returns (nan, nan); no exception leaves the function.
get_historical_bounds(sid, resp) ==
    IF resp.kind # "ok" \/ AvailableHistorical(resp) = {}
    THEN [exc |-> "none", station_id |-> sid, bounds |-> Unknown]
    ELSE [exc |-> "none", station_id |-> sid,
          bounds |-> [known    |-> TRUE,
                      min_year |-> StrMin(AvailableHistorical(resp)),
                      max_year |-> StrMax(AvailableHistorical(resp))]]

\* The loop body of line 99 skipping the futures whose bounds are unknown.
AppendKnownOnly(observation_bounds, res) ==
    IF res.bounds.known THEN Append(observation_bounds, res) ELSE observation_bounds

\* observation_bounds.append(future.result())
AppendResult(observation_bounds, res) == Append(observation_bounds, res)

\* observation_bounds_dict: a later entry of the list replaces an earlier
\* entry with the same key.
BoundsDict(observation_bounds) ==
    [s \in {observation_bounds[k].station_id : k \in DOMAIN observation_bounds} |->
       observation_bounds[CHOOSE k \in DOMAIN observation_bounds :
           /\ observation_bounds[k].station_id = s
           /\ \A j \in (k + 1)..Len(observation_bounds) :
                  observation_bounds[j].station_id # s].bounds]

\* pd.DataFrame(observation_bounds_dict).dropna(axis=1).columns with nothing
\* dropped.
ValidColumnsAll(bdict) == DOMAIN bdict

\* pd.DataFrame(observation_bounds_dict).dropna(axis=1).columns: the ids
\* whose bounds hold no NaN.
ValidColumns(bdict) == {s \in DOMAIN bdict : bdict[s].known}

\* get_buoy_metadata from line 136 on, and get_buoy_stations: the rows of the
\* buoy table whose id is a valid column, in the order of the table, each
\* with its bounds as floats and its signed latitude and longitude.
StationRow(s, bdict) ==
    [station_id |-> s,
     min_year   |-> bdict[s].min_year,
     max_year   |-> bdict[s].max_year,
     latitude   |-> _get_latitude(TableRow(s).latnum, TableRow(s).latdir),
     longitude  |-> _get_longitude(TableRow(s).lonnum, TableRow(s).londir)]

get_buoy_stations(observation_bounds) ==
    LET bdict == BoundsDict(observation_bounds)
        kept  == SelectSeq(BuoyIds, LAMBDA s : s \in ValidColumns(bdict))
    IN  [k \in 1..Len(kept) |-> StationRow(kept[k], bdict)]

\* ---------------------------------------------------------- data_processing
\* The ids of the rows of a station table.
RowIds(rows) == {rows[k].station_id : k \in DOMAIN rows}
RowOf(rows, s) == rows[CHOOSE k \in DOMAIN rows : rows[k].station_id = s]

\* add_latitude_longitude selecting by position (isel) in place of by label.
AddLocationByPosition(xsdf, reference) ==
    IF xsdf.station_id = <<>>
    THEN [exc |-> "AttributeError", ret |-> xsdf]
    ELSE IF Len(xsdf.station_id) > Len(reference)
    THEN [exc |-> "IndexError", ret |-> xsdf]
    ELSE [exc |-> "none",
          ret |-> [xsdf EXCEPT
                     !.data_vars = @ \cup {"latitude", "longitude"},
                     !.latitude  = [s \in Range(xsdf.station_id) |->
                        reference[CHOOSE k \in DOMAIN xsdf.station_id :
                                      xsdf.station_id[k] = s].latitude],
                     !.longitude = [s \in Range(xsdf.station_id) |->
                        reference[CHOOSE k \in DOMAIN xsdf.station_id :
                                      xsdf.station_id[k] = s].longitude]]]

\* add_latitude_longitude: xsdf.station_id is an AttributeError on a dataset
\* without that coordinate; .sel(station_id=...) is a KeyError when an id is
\* not in the reference; otherwise both variables are set for every station.
add_latitude_longitude(xsdf, reference) ==
    IF xsdf.station_id = <<>>
    THEN [exc |-> "AttributeError", ret |-> xsdf]
    ELSE IF ~(Range(xsdf.station_id) \subseteq RowIds(reference))
    THEN [exc |-> "KeyError", ret |-> xsdf]
    ELSE [exc |-> "none",
          ret |-> [xsdf EXCEPT
                     !.data_vars = @ \cup {"latitude", "longitude"},
                     !.latitude  = [s \in Range(xsdf.station_id) |->
                                      RowOf(reference, s).latitude],
                     !.longitude = [s \in Range(xsdf.station_id) |->
                                      RowOf(reference, s).longitude]]]

\* A float quotient n / d of two integers, as the fraction in lowest terms:
\* 0 / 0 is nan, n / 0 is inf, and no division by zero is raised (numpy
\* arrays divide without an exception).
RECURSIVE GCD(_, _)
GCD(a, b) == IF b = 0 THEN a ELSE GCD(b, a % b)

FloatNaN == [num |-> 0, den |-> 0]
FloatInf == [num |-> 1, den |-> 0]
TrueDivide(n, d) ==
    IF d = 0 THEN (IF n = 0 THEN FloatNaN ELSE FloatInf)
    ELSE [num |-> n \div GCD(n, d), den |-> d \div GCD(n, d)]

\* (~np.isnan(xsdf[varname])).sum(dim="time") for one station: the sum of
\* the mask along the time axis.
RECURSIVE SumNotNaN(_, _)
SumNotNaN(values, time) ==
    IF time = <<>> THEN 0
    ELSE (IF values[Head(time)] # NaN THEN 1 ELSE 0) + SumNotNaN(values, Tail(time))

\* The coverage with the valid values counted over the timestamps at which
\* some station has a value, not over the whole time axis.
CoverageOverObserved(xsdf, s) ==
    TrueDivide(100 * SumNotNaN(xsdf.WTMP[s], xsdf.time),
               Cardinality({k \in DOMAIN xsdf.time :
                   \E o \in Range(xsdf.station_id) : xsdf.WTMP[o][xsdf.time[k]] # NaN}))

\* 100 * numerator / denominator for one station (lines 56-58).
Coverage(xsdf, s) ==
    TrueDivide(100 * SumNotNaN(xsdf.WTMP[s], xsdf.time), Len(xsdf.time))

\* The names a call gives the coverage variable when every call adds a
\* variable of its own.
CoverageNameFresh(data_vars) ==
    IF "WTMP_coverage" \in data_vars THEN "WTMP_coverage_1" ELSE "WTMP_coverage"

\* f"{varname}_coverage"
CoverageName(data_vars) == "WTMP_coverage"

\* add_variable_coverage: xsdf[varname] is a KeyError when the dataset has
\* no such variable; otherwise the coverage variable is set, or set again,
\* for every station.
add_variable_coverage(xsdf, varname) ==
    IF varname \notin xsdf.data_vars
    THEN [exc |-> "KeyError", ret |-> xsdf]
    ELSE [exc |-> "none",
          ret |-> [xsdf EXCEPT
                     !.data_vars = @ \cup {CoverageName(xsdf.data_vars)},
                     !.WTMP_coverage = [s \in Range(xsdf.station_id) |->
                                          Coverage(xsdf, s)]]]

\* compute_data_coverage: add_variable_coverage under another name.
compute_data_coverage(ds, variable) == add_variable_coverage(ds, variable)

\* ------------------------------------------------------- geographic_filters
\* The default bounds of box_filter_buoys, filter_by_region and list_stations.
GlobalLonMin == -180
GlobalLonMax == 180
GlobalLatMin == -90
GlobalLatMax == 90

GlobalBox == [lon1 |-> GlobalLonMin, lon2 |-> GlobalLonMax,
              lat1 |-> GlobalLatMin, lat2 |-> GlobalLatMax]

\* The mask with both bounds exclusive.
InBoxStrict(latitude, longitude, box) ==
    /\ longitude > box.lon1 /\ longitude < box.lon2
    /\ latitude > box.lat1 /\ latitude < box.lat2

\* longitude_box * latitude_box for one station: the product of the four
\* comparisons of lines 48-49.
InBox(latitude, longitude, box) ==
    /\ longitude >= box.lon1 /\ longitude <= box.lon2
    /\ latitude >= box.lat1 /\ latitude <= box.lat2

\* A per-station variable restricted to the stations K; a variable the
\* dataset does not have stays absent.
Restrict(ds, name, values, K) ==
    IF name \in ds.data_vars THEN [s \in K |-> values[s]] ELSE <<>>

\* box_filter_buoys with the mask taken from the stations in reverse order
\* and applied by position.
BoxFilterByPosition(ds, box) ==
    IF ~({"latitude", "longitude"} \subseteq ds.data_vars)
    THEN [exc |-> "AttributeError", ret |-> ds]
    ELSE LET n    == Len(ds.station_id)
             idx  == SelectSeq([k \in 1..n |-> k],
                         LAMBDA k : InBox(ds.latitude[ds.station_id[n + 1 - k]],
                                          ds.longitude[ds.station_id[n + 1 - k]], box))
             kept == [k \in 1..Len(idx) |-> ds.station_id[idx[k]]]
             K    == Range(kept)
         IN  [exc |-> "none",
              ret |-> [ds EXCEPT
                         !.station_id    = kept,
                         !.WTMP          = Restrict(ds, "WTMP", ds.WTMP, K),
                         !.latitude      = Restrict(ds, "latitude", ds.latitude, K),
                         !.longitude     = Restrict(ds, "longitude", ds.longitude, K),
                         !.WTMP_coverage =
                             Restrict(ds, "WTMP_coverage", ds.WTMP_coverage, K)]]

\* box_filter_buoys on a dataset of observations: ds.longitude is an
\* AttributeError when the dataset has no such variable; otherwise
\* ds.where(mask, drop=True) drops the station_id labels whose mask is False
\* and keeps every variable of the stations that stay.
box_filter_buoys(ds, box) ==
    IF ~({"latitude", "longitude"} \subseteq ds.data_vars)
    THEN [exc |-> "AttributeError", ret |-> ds]
    ELSE LET kept == SelectSeq(ds.station_id,
                         LAMBDA s : InBox(ds.latitude[s], ds.longitude[s], box))
             K    == Range(kept)
         IN  [exc |-> "none",
              ret |-> [ds EXCEPT
                         !.station_id    = kept,
                         !.WTMP          = Restrict(ds, "WTMP", ds.WTMP, K),
                         !.latitude      = Restrict(ds, "latitude", ds.latitude, K),
                         !.longitude     = Restrict(ds, "longitude", ds.longitude, K),
                         !.WTMP_coverage =
                             Restrict(ds, "WTMP_coverage", ds.WTMP_coverage, K)]]

\* box_filter_buoys on the station table as a dataset: the rows whose mask
\* is True, in the order of the table.
BoxFilterStations(rows, box) ==
    SelectSeq(rows, LAMBDA r : InBox(r.latitude, r.longitude, box))

\* filter_by_region: box_filter_buoys with the bounds under other names.
filter_by_region(ds, lon_min, lon_max, lat_min, lat_max) ==
    box_filter_buoys(ds, [lon1 |-> lon_min, lon2 |-> lon_max,
                          lat1 |-> lat_min, lat2 |-> lat_max])

\* ---------------------------------------------------------------------- core
\* A region argument: None, or a dict holding any of the four keys.
NoRegion == [none |-> TRUE, dict |-> <<>>]
RegionKeys == {"lon_min", "lon_max", "lat_min", "lat_max"}
RegionValue(key) ==
    CASE key = "lon_min" -> -20
      [] key = "lon_max" -> 0
      [] key = "lat_min" -> 10
      [] key = "lat_max" -> 0
Regions ==
    {NoRegion} \cup
    {[none |-> FALSE, dict |-> [k \in K |-> RegionValue(k)]] : K \in SUBSET RegionKeys}

\* region.get(key, default)
RegionGet(region, key, default) ==
    IF key \in DOMAIN region.dict THEN region.dict[key] ELSE default

\* The box list_stations hands to box_filter_buoys (lines 56-59).
RegionBox(region) ==
    [lon1 |-> RegionGet(region, "lon_min", GlobalLonMin),
     lon2 |-> RegionGet(region, "lon_max", GlobalLonMax),
     lat1 |-> RegionGet(region, "lat_min", GlobalLatMin),
     lat2 |-> RegionGet(region, "lat_max", GlobalLatMax)]

DataFormats == {"xarray", "pandas"}

\* The test of line 53 without the data_format condition.
RegionAppliesAnyFormat(region, data_format) == ~region.none

\* if region is not None and data_format == "xarray"
RegionApplies(region, data_format) == ~region.none /\ data_format = "xarray"

\* list_stations after get_buoy_stations returned (lines 52-62).
list_stations(rows, region, data_format) ==
    IF RegionApplies(region, data_format)
    THEN BoxFilterStations(rows, RegionBox(region))
    ELSE rows

\* ------------------------------------ extract_historical_year, row by row
\* The table pd.read_csv returned for one year file (line 88 or 90): the
\* spelling of its year column and the year its rows hold, whether it has
\* the hh, mm and WTMP columns, and its rows.  The month is 1 in every row;
\* a row holds NaN for a column the file does not have.
MaxRows == 2

YearSpellings == {"YY", "#YY", "YYYY"}
YearValues == {98, 99, 1998}
Sentinels == {99, 999, 9999}
RawWTMP == {5} \cup Sentinels
Clock == {[hh |-> 0, mm |-> 0], [hh |-> 5, mm |-> 30]}

RawRows(has_hh, has_mm, has_WTMP) ==
    {[DD   |-> d,
      hh   |-> IF has_hh THEN c.hh ELSE NaN,
      mm   |-> IF has_mm THEN c.mm ELSE NaN,
      WTMP |-> IF has_WTMP THEN w ELSE NaN] : d \in Day, c \in Clock, w \in RawWTMP}

RawTables ==
    UNION {UNION {[ycol : {y}, year : YearValues,
                   has_hh : {f[1]}, has_mm : {f[2]}, has_WTMP : {f[3]},
                   rows : [1..n -> RawRows(f[1], f[2], f[3])]] :
                  n \in 1..MaxRows, y \in YearSpellings} :
           f \in [1..3 -> BOOLEAN]}

\* The sentinels replaced by zero.
ReplaceByZero(v) == IF v \in Sentinels THEN 0 ELSE v

\* sdf.replace([99, 999, 9999], np.nan) on one cell, of any column.
Replace(v) == IF v \in Sentinels THEN NaN ELSE v

\* if "YY" in sdf.columns: sdf["YY"] = 1900 + sdf["YY"]
\* (the columns "#YY" and "YYYY" are left as they are; 1900 + nan is nan).
Rebase(ycol, v) ==
    IF ycol = "YY" THEN (IF v = NaN THEN NaN ELSE 1900 + v) ELSE v

\* The hour column filled with 0 when the file has none.
HourColumnMidnight(has_hh, v) == IF has_hh THEN v ELSE 0

\* sdf["hh"] = 1 if 'hh' not in sdf.columns else sdf["hh"]
HourColumn(has_hh, v) == IF has_hh THEN v ELSE 1

\* sdf["mm"] = 0 if "mm" not in sdf.columns else sdf["mm"]
MinuteColumn(has_mm, v) == IF has_mm THEN v ELSE 0

\* Lines 98-109 on one row: the five date fields and the measurement, as
\* pd.to_datetime and the resampling get them.
Canonical(raw, row) ==
    [year   |-> Rebase(raw.ycol, Replace(raw.year)),
     month  |-> 1,
     day    |-> Replace(row.DD),
     hour   |-> HourColumn(raw.has_hh, Replace(row.hh)),
     minute |-> MinuteColumn(raw.has_mm, Replace(row.mm)),
     WTMP   |-> Replace(row.WTMP)]

\* The years a datetime64[ns] timestamp can hold.
MinTimestampYear == 1678
MaxTimestampYear == 2261

NaT == [year |-> NaN, month |-> NaN, day |-> NaN, hour |-> NaN, minute |-> NaN]

\* pd.to_datetime(sdf[dt_cols]) on the rows c.  A year outside the range of
\* a timestamp is a ValueError.  A missing field is, depending on the pandas
\* in use, a ValueError or a NaT for the row: nat says which.
to_datetime(c, nat) ==
    IF \E k \in DOMAIN c :
           c[k].year # NaN /\ (c[k].year < MinTimestampYear \/ c[k].year > MaxTimestampYear)
    THEN [exc |-> "ValueError", time |-> <<>>]
    ELSE IF (\E k \in DOMAIN c : c[k].year = NaN) /\ ~nat
    THEN [exc |-> "ValueError", time |-> <<>>]
    ELSE [exc |-> "none",
          time |-> [k \in DOMAIN c |->
                      IF c[k].year = NaN THEN NaT
                      ELSE [year |-> c[k].year, month |-> c[k].month, day |-> c[k].day,
                            hour |-> c[k].hour, minute |-> c[k].minute]]]

\* The sum and the number of the values that are not NaN.
RECURSIVE SumValid(_)
SumValid(values) ==
    IF values = <<>> THEN [sum |-> 0, n |-> 0]
    ELSE LET r == SumValid(Tail(values))
         IN  IF Head(values) = NaN THEN r
             ELSE [sum |-> r.sum + Head(values), n |-> r.n + 1]

\* .mean("time") of one bucket: the mean of the values that are not NaN, and
\* nan for a bucket without any.
Mean(values) == TrueDivide(SumValid(values).sum, SumValid(values).n)

\* .sortby("time").resample(time="D").mean("time") on rows of which one at
\* least has a time: one record per calendar day from the first to the last
\* day of the rows; a row whose time is NaT falls in no bucket.  A file
\* without a WTMP column gives records without WTMP.
ResampleMean(raw, c, time) ==
    LET valid == {k \in DOMAIN time : time[k] # NaT}
        days  == {time[k].day : k \in valid}
        lo    == CHOOSE d \in days : \A e \in days : d <= e
        hi    == CHOOSE d \in days : \A e \in days : d >= e
        in(d) == SelectSeq([k \in DOMAIN c |-> k],
                           LAMBDA k : k \in valid /\ time[k].day = d)
        of(d) == [j \in 1..Len(in(d)) |-> c[in(d)[j]].WTMP]
    IN  [none |-> FALSE,
         data_vars |-> IF raw.has_WTMP THEN {"WTMP"} ELSE {},
         recs |-> [n \in 1..(hi - lo + 1) |->
                     IF raw.has_WTMP
                     THEN [time |-> lo + n - 1, WTMP |-> Mean(of(lo + n - 1))]
                     ELSE [time |-> lo + n - 1]]]

\* if ("WTMP" not in sdf.columns) and display_error
MissingVariableShown(raw, display_error) == ~raw.has_WTMP /\ display_error

\* extract_historical_year from line 92 on, for the table raw: what it
\* returns, with the canonical rows (sdf after line 109) and sdf['time'].
\* Every exception ends in the handler of line 121, which returns None: the
\* ValueError of pd.to_datetime, and the one of the resampling of a time
\* axis that holds nothing but NaT.
ExtractTable(raw, display_error, nat) ==
    LET c == [k \in DOMAIN raw.rows |-> Canonical(raw, raw.rows[k])]
        t == to_datetime(c, nat)
    IN  IF MissingVariableShown(raw, display_error)
        THEN [exc |-> "none", sdf |-> <<>>, time |-> <<>>, ret |-> None]
        ELSE IF t.exc # "none"
        THEN [exc |-> "none", sdf |-> c, time |-> <<>>, ret |-> None]
        ELSE IF \A k \in DOMAIN t.time : t.time[k] = NaT
        THEN [exc |-> "none", sdf |-> c, time |-> t.time, ret |-> None]
        ELSE [exc |-> "none", sdf |-> c, time |-> t.time,
              ret |-> ResampleMean(raw, c, t.time)]

\* ------------------------------------------------------------------ state
VARIABLES
    op,            \* the public function that was called
    region,        \* list_stations' region
    data_format,   \* list_stations' data_format
    station_list,  \* its station ids
    years,         \* its years
    debugging,     \* get_station_records' debugging flag
    add_location,  \* fetch_data's add_location flag
    cpu_count,     \* what os.cpu_count() returns
    pc,            \* where the call is
    si,            \* position of the station loop in station_list
    station_id,    \* the loop variable the year tasks' lambda reads
    task,          \* per year of the current station: the state of its task
    results,       \* per year of the current station: what its task returned
    fetched,       \* per station: the results of its year tasks, once joined
    xxsdf,         \* the station datasets collected so far
    outcome,       \* what each (station, year) call of the lambda returned
    futures,       \* per buoy id: the future of its get_historical_bounds
    observation_bounds,  \* what as_completed has handed over, in that order
    stations,      \* the station table get_buoy_stations returned
    dataset,       \* the dataset the call has built
    raised,        \* the exception that left the call, "none" if none
    arg,           \* a direct call of one function: its arguments
    out,           \* and what it returned
    calls          \* the calls made on a dataset, in order, with their results

unitVars  == <<arg, out, calls>>
callVars  == <<station_list, years, debugging, add_location, cpu_count, op,
               region, data_format>>
fetchVars == <<callVars, unitVars>>
loopVars  == <<si, station_id, task, results, fetched, xxsdf, outcome>>
metaVars  == <<futures, observation_bounds, stations>>
vars == <<fetchVars, loopVars, metaVars, pc, dataset, raised>>

NoCall == [called |-> FALSE]

Queued == [st |-> "queued", sid |-> 0, exc |-> "none"]

YearIdx == DOMAIN years
Running == {i \in YearIdx : task[i].st = "running"}

\* The call of the lambda for the year at position i of years, made with
\* station id sid, returned ret.
Returned(sid, i, ret) == [sid |-> sid, yr |-> years[i], ret |-> ret]

\* results.append(...) in the loop over years: the call for position i is
\* made when the calls before it have returned, and its result goes to the
\* end of the list, which is position i.
Appended(rs, i, ret) == [rs EXCEPT ![i] = ret]

\* The results in the order in which the tasks finish.
MappedAsCompleted(rs, i, ret) ==
    [rs EXCEPT ![Cardinality({j \in YearIdx : task[j].st = "done"}) + 1] = ret]

\* list(executor.map(particular_historical_record, years)): the result of
\* the task for position i of years is at position i of the list, whenever
\* the task finishes.
Mapped(rs, i, ret) == [rs EXCEPT ![i] = ret]

\* The join as soon as one task is done.
YearTasksRolling == \E i \in YearIdx : task[i].st = "done"

\* The end of the with block (executor.shutdown(wait=True)) and of list():
\* every year task of the station is done.
YearTasksJoined == \A i \in YearIdx : task[i].st = "done"

\* The pool with one worker more than os.cpu_count().
MaxWorkersPlusOne == cpu_count + 1

\* max_workers = max(os.cpu_count() - 1, 1)
max_workers == Max(cpu_count - 1, 1)

\* The requests of a call: lists of stations and of years without a repeated
\* element, in any order.
CpuCounts    == {1, MaxCpu}
StationLists == UNION {DistinctSeqs(Station, n) : n \in 1..NStations}
YearLists    == UNION {DistinctSeqs(Year, n) : n \in 1..NYears}

Init ==
    /\ op \in {"get_station_records", "fetch_data", "list_stations"}
    /\ station_list \in (IF op = "list_stations" THEN {<<>>} ELSE StationLists)
    /\ years \in (IF op = "list_stations" THEN {<<>>} ELSE YearLists)
    /\ debugging \in (IF op = "get_station_records" THEN BOOLEAN ELSE {FALSE})
    /\ add_location \in (IF op = "fetch_data" THEN BOOLEAN ELSE {FALSE})
    /\ cpu_count \in (IF op = "list_stations" THEN {1} ELSE CpuCounts)
    /\ region \in (IF op = "list_stations" THEN Regions ELSE {NoRegion})
    /\ data_format \in (IF op = "list_stations" THEN DataFormats ELSE {"xarray"})
    /\ pc = (IF op = "list_stations" THEN "metadata" ELSE "loop")
    /\ futures = <<>>
    /\ observation_bounds = <<>>
    /\ stations = <<>>
    /\ si = 1
    /\ station_id = 0
    /\ task = <<>>
    /\ results = <<>>
    /\ fetched = [s \in Station |-> <<>>]
    /\ xxsdf = <<>>
    /\ outcome = {}
    /\ dataset = EmptyDataset
    /\ raised = "none"
    /\ arg = NoCall
    /\ out = NoCall
    /\ calls = <<>>

\* ---------------------------------------------------- get_station_records
\* for station_id in station_list: the lambda is defined and the year tasks
\* are handed to the executor (or to the sequential loop).
BeginStation ==
    /\ pc = "loop"
    /\ si <= Len(station_list)
    /\ station_id' = station_list[si]
    /\ task' = [i \in YearIdx |-> Queued]
    /\ results' = [i \in YearIdx |-> None]
    /\ pc' = "years"
    /\ UNCHANGED <<fetchVars, metaVars, si, fetched, xxsdf, outcome, dataset, raised>>

\* debugging: results.append(particular_historical_record(yr)), the years
\* in the order of the list; an exception of the call leaves the function.
DebugCall(i) ==
    /\ pc = "years"
    /\ debugging
    /\ task[i].st = "queued"
    /\ \A j \in 1..(i - 1) : task[j].st = "done"
    /\ \E resp \in Response :
         LET r == extract_historical_year(years[i], resp)
         IN  /\ task' = [task EXCEPT ![i] = [st |-> "done", sid |-> station_id, exc |-> r.exc]]
             /\ results' = Appended(results, i, r.ret)
             /\ outcome' = outcome \cup {Returned(station_id, i, r.ret)}
             /\ raised' = r.exc
             /\ pc' = IF r.exc = "none" THEN "years" ELSE "raised"
    /\ UNCHANGED <<fetchVars, metaVars, si, station_id, fetched, xxsdf, dataset>>

\* A worker of the ThreadPoolExecutor takes the oldest queued task; at most
\* max_workers tasks run.  The lambda reads station_id when it is called.
WorkerStart(i) ==
    /\ pc = "years"
    /\ ~debugging
    /\ task[i].st = "queued"
    /\ \A j \in 1..(i - 1) : task[j].st # "queued"
    /\ Cardinality(Running) < max_workers
    /\ task' = [task EXCEPT ![i] = [st |-> "running", sid |-> station_id, exc |-> "none"]]
    /\ UNCHANGED <<fetchVars, metaVars, pc, si, station_id, results, fetched, xxsdf, outcome, dataset, raised>>

\* A running task returns: its future holds the result or the exception.
WorkerFinish(i) ==
    /\ pc = "years"
    /\ task[i].st = "running"
    /\ \E resp \in Response :
         LET r == extract_historical_year(years[i], resp)
         IN  /\ task' = [task EXCEPT ![i] = [st |-> "done", sid |-> task[i].sid, exc |-> r.exc]]
             /\ results' = Mapped(results, i, r.ret)
             /\ outcome' = outcome \cup {Returned(task[i].sid, i, r.ret)}
    /\ UNCHANGED <<fetchVars, metaVars, pc, si, station_id, fetched, xxsdf, dataset, raised>>

\* The test of line 183 letting every list of results through.
AnyResults(rs) == Len(rs) >= 0

\* if len(results) > 1
SeveralResults(rs) == Len(rs) > 1

\* Lines 180-187: the None results are dropped; several results are
\* concatenated, sorted, deduplicated and appended as the station's dataset.
StationDataset(sid, rs) ==
    [station_id |-> sid,
     recs |-> DropDuplicates(SortByTime(Concat(rs)))]

Collected(sid, rs, acc) ==
    IF SeveralResults(FilterNone(rs))
    THEN Append(acc, StationDataset(sid, FilterNone(rs)))
    ELSE acc

\* The join of one station: list(executor.map(...)) and the end of the with
\* block (or the end of the sequential loop) are reached when every year
\* task is done; the first exception a future holds leaves the function.
Join ==
    /\ pc = "years"
    /\ YearTasksJoined
    /\ IF \E i \in YearIdx : task[i].exc # "none"
       THEN /\ raised' = task[CHOOSE i \in YearIdx :
                                /\ task[i].exc # "none"
                                /\ \A j \in 1..(i - 1) : task[j].exc = "none"].exc
            /\ pc' = "raised"
            /\ UNCHANGED <<si, fetched, xxsdf>>
       ELSE /\ xxsdf' = Collected(station_id, results, xxsdf)
            /\ fetched' = [fetched EXCEPT ![station_id] = results]
            /\ si' = si + 1
            /\ pc' = "loop"
            /\ raised' = raised
    /\ UNCHANGED <<fetchVars, metaVars, station_id, task, results, outcome, dataset>>

\* return xr.merge(xxsdf): the locals of get_station_records end with it.
\* fetch_data goes on to the location step when add_location is set.
Merge ==
    /\ pc = "loop"
    /\ si > Len(station_list)
    /\ dataset' = xr_merge(xxsdf)
    /\ pc' = IF op = "fetch_data" /\ add_location THEN "metadata" ELSE "done"
    /\ si' = 1
    /\ station_id' = 0
    /\ task' = <<>>
    /\ results' = <<>>
    /\ xxsdf' = <<>>
    /\ UNCHANGED <<fetchVars, metaVars, fetched, outcome, raised>>

\* ------------------------------------------------------- get_buoy_stations
Pending == [st |-> "pending",
            res |-> [exc |-> "none", station_id |-> 0, bounds |-> Unknown]]

\* get_buoy_metadata up to the executor.submit calls of
\* fetch_station_historical_bounds: one future per buoy id.
SubmitBounds ==
    /\ pc = "metadata"
    /\ futures' = [s \in Range(BuoyIds) |-> Pending]
    /\ pc' = "bounds"
    /\ UNCHANGED <<fetchVars, loopVars, observation_bounds, stations, dataset, raised>>

\* A worker runs get_historical_bounds(sid); the futures finish in any order.
BoundsTask(s) ==
    /\ pc = "bounds"
    /\ futures[s].st = "pending"
    /\ \E resp \in BoundsResponse :
         futures' = [futures EXCEPT ![s] =
                       [st |-> "finished", res |-> get_historical_bounds(s, resp)]]
    /\ UNCHANGED <<fetchVars, loopVars, observation_bounds, stations, pc, dataset, raised>>

\* for future in as_completed(futures):
\*     observation_bounds.append(future.result())
\* future.result() raises the exception the future holds.
AsCompleted(s) ==
    /\ pc = "bounds"
    /\ futures[s].st = "finished"
    /\ futures' = [futures EXCEPT ![s].st = "yielded"]
    /\ raised' = futures[s].res.exc
    /\ IF futures[s].res.exc = "none"
       THEN /\ observation_bounds' = AppendResult(observation_bounds, futures[s].res)
            /\ pc' = pc
       ELSE /\ observation_bounds' = observation_bounds
            /\ pc' = "raised"
    /\ UNCHANGED <<fetchVars, loopVars, stations, dataset>>

\* as_completed is exhausted: fetch_station_historical_bounds returns, and
\* get_buoy_metadata and get_buoy_stations build the station table.
BuildStations ==
    /\ pc = "bounds"
    /\ \A s \in DOMAIN futures : futures[s].st = "yielded"
    /\ stations' = get_buoy_stations(observation_bounds)
    /\ pc' = IF op = "list_stations" THEN "region" ELSE "location"
    /\ UNCHANGED <<fetchVars, loopVars, futures, observation_bounds, dataset, raised>>

\* list_stations: the region filter on what get_buoy_stations returned, and
\* the return.
ListStations ==
    /\ pc = "region"
    /\ stations' = list_stations(stations, region, data_format)
    /\ pc' = "done"
    /\ UNCHANGED <<fetchVars, loopVars, futures, observation_bounds, dataset, raised>>

\* fetch_data: dataset = add_latitude_longitude(dataset, reference_stations)
AddLocation ==
    /\ pc = "location"
    /\ LET r == add_latitude_longitude(dataset, stations)
       IN  /\ raised' = r.exc
           /\ dataset' = r.ret
           /\ pc' = IF r.exc = "none" THEN "done" ELSE "raised"
    /\ UNCHANGED <<fetchVars, loopVars, metaVars>>

Next ==
    \/ BeginStation
    \/ \E i \in YearIdx : DebugCall(i)
    \/ \E i \in YearIdx : WorkerStart(i)
    \/ \E i \in YearIdx : WorkerFinish(i)
    \/ Join
    \/ Merge
    \/ SubmitBounds
    \/ \E s \in DOMAIN futures : BoundsTask(s)
    \/ \E s \in DOMAIN futures : AsCompleted(s)
    \/ BuildStations
    \/ ListStations
    \/ AddLocation

Spec == Init /\ [][Next]_vars

\* ------------------------------------------ get_historical_bounds, called alone
\* One direct call of get_historical_bounds(station_id) for a station of the
\* table, with any answer of the locator service.
InitBounds ==
    /\ op = "get_historical_bounds"
    /\ arg \in [called : {TRUE}, sid : Range(TableIds), resp : BoundsResponse]
    /\ out = NoCall
    /\ calls = <<>>
    /\ station_list = <<>>
    /\ years = <<>>
    /\ debugging = FALSE
    /\ add_location = FALSE
    /\ cpu_count = 1
    /\ region = NoRegion
    /\ data_format = "xarray"
    /\ pc = "call"
    /\ si = 1
    /\ station_id = 0
    /\ task = <<>>
    /\ results = <<>>
    /\ fetched = [s \in Station |-> <<>>]
    /\ xxsdf = <<>>
    /\ outcome = {}
    /\ futures = <<>>
    /\ observation_bounds = <<>>
    /\ stations = <<>>
    /\ dataset = EmptyDataset
    /\ raised = "none"

CallBounds ==
    /\ pc = "call"
    /\ out' = [called |-> TRUE, ret |-> get_historical_bounds(arg.sid, arg.resp)]
    /\ raised' = get_historical_bounds(arg.sid, arg.resp).exc
    /\ pc' = IF raised' = "none" THEN "done" ELSE "raised"
    /\ UNCHANGED <<callVars, arg, calls, loopVars, metaVars, dataset>>

NextBounds == CallBounds

SpecBounds == InitBounds /\ [][NextBounds]_vars

\* ------------------------------ compute_data_coverage, filter_by_region
\* The calls a user makes on a dataset they hold: compute_data_coverage and
\* filter_by_region, each on what the call before returned.
MaxCalls == 2

\* The stations of the spec's region scenario and two more: one on the
\* corner of the scenario's box, one outside it in longitude only.
Points ==
    {[latitude |-> 40, longitude |-> -70], [latitude |-> 30, longitude |-> -60],
     [latitude |-> 35, longitude |-> -75], [latitude |-> 40, longitude |-> -60]}

ScenarioBox == [lon1 |-> -75, lon2 |-> -65, lat1 |-> 35, lat2 |-> 45]
Boxes == {GlobalBox, ScenarioBox}

VariableNames == {"WTMP", "WSPD"}

\* A dataset of the stations S over the time axis 1..n: station s misses its
\* first miss[s] values; with has, the stations carry the locations pt.
ProcDataset(S, n, miss, has, pt) ==
    [station_id |-> SortedSeq(S),
     time       |-> [k \in 1..n |-> k],
     data_vars  |-> IF has THEN {"WTMP", "latitude", "longitude"} ELSE {"WTMP"},
     WTMP       |-> [s \in S |-> [t \in 1..n |->
                       IF t <= miss[s] THEN NaN ELSE Measured(s, t)]],
     latitude   |-> IF has THEN [s \in S |-> pt[s].latitude] ELSE <<>>,
     longitude  |-> IF has THEN [s \in S |-> pt[s].longitude] ELSE <<>>,
     WTMP_coverage |-> <<>>]

ProcDatasets ==
    UNION {UNION {{ProcDataset(S, n, miss, TRUE, pt) :
                       miss \in [S -> 0..n], pt \in [S -> Points]}
                  \cup {ProcDataset(S, n, miss, FALSE, <<>>) : miss \in [S -> 0..n]} :
                  n \in 0..MaxDay} :
           S \in (SUBSET Station) \ {{}}}

InitProcessing ==
    /\ op = "data_processing"
    /\ dataset \in ProcDatasets
    /\ calls = <<>>
    /\ arg = NoCall
    /\ out = NoCall
    /\ station_list = <<>>
    /\ years = <<>>
    /\ debugging = FALSE
    /\ add_location = FALSE
    /\ cpu_count = 1
    /\ region = NoRegion
    /\ data_format = "xarray"
    /\ pc = "call"
    /\ si = 1
    /\ station_id = 0
    /\ task = <<>>
    /\ results = <<>>
    /\ fetched = [s \in Station |-> <<>>]
    /\ xxsdf = <<>>
    /\ outcome = {}
    /\ futures = <<>>
    /\ observation_bounds = <<>>
    /\ stations = <<>>
    /\ raised = "none"

\* One call: it is recorded with its input and its result; an exception
\* leaves the caller.
Called(fn, variable, box, r) ==
    /\ calls' = Append(calls, [fn |-> fn, variable |-> variable, box |-> box,
                               input |-> dataset, ret |-> r.ret, exc |-> r.exc])
    /\ dataset' = r.ret
    /\ raised' = r.exc
    /\ pc' = IF r.exc = "none" THEN "call" ELSE "raised"
    /\ UNCHANGED <<callVars, arg, out, loopVars, metaVars>>

\* dataset = compute_data_coverage(dataset, variable)
ComputeCoverage(variable) ==
    /\ pc = "call"
    /\ Len(calls) < MaxCalls
    /\ Called("compute_data_coverage", variable, GlobalBox,
              compute_data_coverage(dataset, variable))

\* dataset = filter_by_region(dataset, lon_min, lon_max, lat_min, lat_max)
FilterByRegion(box) ==
    /\ pc = "call"
    /\ Len(calls) < MaxCalls
    /\ Called("filter_by_region", "WTMP", box,
              filter_by_region(dataset, box.lon1, box.lon2, box.lat1, box.lat2))

NextProcessing ==
    \/ \E variable \in VariableNames : ComputeCoverage(variable)
    \/ \E box \in Boxes : FilterByRegion(box)

SpecProcessing == InitProcessing /\ [][NextProcessing]_vars

\* --------------------------------- extract_historical_year on one year file
\* One call of extract_historical_year whose file was read as the table
\* arg.raw.
InitExtract ==
    /\ op = "extract_historical_year"
    /\ arg \in [called : {TRUE}, raw : RawTables, display_error : BOOLEAN]
    /\ out = NoCall
    /\ calls = <<>>
    /\ station_list = <<>>
    /\ years = <<>>
    /\ debugging = FALSE
    /\ add_location = FALSE
    /\ cpu_count = 1
    /\ region = NoRegion
    /\ data_format = "xarray"
    /\ pc = "call"
    /\ si = 1
    /\ station_id = 0
    /\ task = <<>>
    /\ results = <<>>
    /\ fetched = [s \in Station |-> <<>>]
    /\ xxsdf = <<>>
    /\ outcome = {}
    /\ futures = <<>>
    /\ observation_bounds = <<>>
    /\ stations = <<>>
    /\ dataset = EmptyDataset
    /\ raised = "none"

CallExtract ==
    /\ pc = "call"
    /\ \E nat \in BOOLEAN :
         LET r == ExtractTable(arg.raw, arg.display_error, nat)
         IN  /\ out' = [called |-> TRUE, sdf |-> r.sdf, time |-> r.time, ret |-> r.ret]
             /\ raised' = r.exc
             /\ pc' = IF r.exc = "none" THEN "done" ELSE "raised"
    /\ UNCHANGED <<callVars, arg, calls, loopVars, metaVars, dataset>>

NextExtract == CallExtract

SpecExtract == InitExtract /\ [][NextExtract]_vars

\* --------------------- the series of one station out of two year files
\* Lines 163-187 for one station and two years whose files both hold rows:
\* the files are the tables arg.files, with a four-digit year column, no hh
\* and no mm column, and a WTMP column; their rows are stamped in the same
\* month (a year file can begin or end with rows stamped in the neighbouring
\* year), on the days 1..MaxDay + 1, so that two files can share a day and
\* can leave a day between them.
SeriesRows ==
    {[DD |-> d, hh |-> NaN, mm |-> NaN, WTMP |-> w] :
        d \in 1..(MaxDay + 1), w \in {5, 8, 999}}

SeriesFiles ==
    UNION {[ycol : {"YYYY"}, year : {1998},
            has_hh : {FALSE}, has_mm : {FALSE}, has_WTMP : {TRUE},
            rows : [1..n -> SeriesRows]] : n \in 1..MaxRows}

InitSeries ==
    /\ op = "get_station_records"
    /\ arg \in [called : {TRUE}, sid : {1}, files : [1..2 -> SeriesFiles]]
    /\ out = NoCall
    /\ calls = <<>>
    /\ station_list = <<1>>
    /\ years = <<1, 2>>
    /\ debugging = TRUE
    /\ add_location = FALSE
    /\ cpu_count = 1
    /\ region = NoRegion
    /\ data_format = "xarray"
    /\ pc = "call"
    /\ si = 1
    /\ station_id = 0
    /\ task = <<>>
    /\ results = <<>>
    /\ fetched = [s \in Station |-> <<>>]
    /\ xxsdf = <<>>
    /\ outcome = {}
    /\ futures = <<>>
    /\ observation_bounds = <<>>
    /\ stations = <<>>
    /\ dataset = EmptyDataset
    /\ raised = "none"

\* The two calls of extract_historical_year and the collection of what they
\* returned into the station's series.
CallSeries ==
    /\ pc = "call"
    /\ \E nat \in BOOLEAN :
         LET rs == [i \in 1..2 |-> ExtractTable(arg.files[i], FALSE, nat).ret]
         IN  /\ results' = rs
             /\ xxsdf' = Collected(arg.sid, rs, xxsdf)
             /\ out' = [called |-> TRUE, results |-> rs]
    /\ station_id' = arg.sid
    /\ pc' = "done"
    /\ UNCHANGED <<callVars, arg, calls, si, task, fetched, outcome, metaVars,
                   dataset, raised>>

NextSeries == CallSeries

SpecSeries == InitSeries /\ [][NextSeries]_vars

\* ------------------------------- has_extra_headers and the read of a file
\* A year file below its row of column names: its lines, each a row of
\* tokens, one per column.  A token is a number (text FALSE, its value v) or
\* a text such as degC (text TRUE).  The file has a units line or none, and
\* under it data rows, whose tokens are numbers; a units line has a text
\* token at least.
Columns == 1..2
Number(v) == [text |-> FALSE, v |-> v]
Text == [text |-> TRUE, v |-> 0]
DataLines == [Columns -> {Number(1), Number(2)}]
UnitsLines == {l \in [Columns -> {Number(1), Text}] : \E c \in Columns : l[c].text}
YearFiles ==
    [units : {<<>>} \cup {<<l>> : l \in UnitsLines},
     data  : UNION {[1..n -> DataLines] : n \in 0..MaxRows}]

\* The lines of the file below the row of column names.
Lines(file) == file.units \o file.data

\* pd.read_csv(url, delim_whitespace=True, nrows=1).values[0]: the tokens of
\* the first line below the column names.  When every token is a number the
\* frame's columns are numeric and the values are numpy scalars; a text
\* token makes its column an object column and the row an array of Python
\* objects.
first_line(lines) ==
    LET boxed == \E c \in Columns : lines[1][c].text
    IN  [c \in Columns |-> [python |-> boxed, text |-> lines[1][c].text]]

\* np.isreal(char): imag(char) == 0.  A numpy scalar gives a numpy bool, a
\* Python number a Python bool; a str has no imaginary part equal to 0 and
\* gives False.
isreal(char) == [python |-> char.python, val |-> ~char.text]

\* ~b: the logical not of a numpy bool (as 0 or 1), the bitwise complement
\* of a Python bool (-1 for False, -2 for True).
Invert(b) ==
    IF b.python THEN (IF b.val THEN -2 ELSE -1)
    ELSE (IF b.val THEN 0 ELSE 1)

\* has_extra_headers: any(~np.isreal(char) for char in first_line); a file
\* without a line below the column names has no values[0] (IndexError).
has_extra_headers(lines) ==
    IF lines = <<>>
    THEN [exc |-> "IndexError", ret |-> FALSE]
    ELSE [exc |-> "none",
          ret |-> \E c \in Columns : Invert(isreal(first_line(lines)[c])) # 0]

\* The read that skips no line.
ReadEveryLine(lines) == lines

\* pd.read_csv(slink, delimiter=r"\s+", skiprows=[1]): the rows of the file
\* without its line number 1, the line directly below the column names.
ReadSkippingLineOne(lines) == Tail(lines)

\* Lines 86-90: the table sdf read from the file; an exception of
\* has_extra_headers goes to the handler of line 121.
ReadYearFile(lines) ==
    LET extra == has_extra_headers(lines)
    IN  IF extra.exc # "none"
        THEN [exc |-> extra.exc, extra |-> FALSE, sdf |-> <<>>]
        ELSE [exc |-> "none", extra |-> extra.ret,
              sdf |-> IF extra.ret THEN ReadSkippingLineOne(lines) ELSE lines]

InitHeaders ==
    /\ op = "read_year_file"
    /\ arg \in [called : {TRUE}, file : YearFiles]
    /\ out = NoCall
    /\ calls = <<>>
    /\ station_list = <<>>
    /\ years = <<>>
    /\ debugging = FALSE
    /\ add_location = FALSE
    /\ cpu_count = 1
    /\ region = NoRegion
    /\ data_format = "xarray"
    /\ pc = "call"
    /\ si = 1
    /\ station_id = 0
    /\ task = <<>>
    /\ results = <<>>
    /\ fetched = [s \in Station |-> <<>>]
    /\ xxsdf = <<>>
    /\ outcome = {}
    /\ futures = <<>>
    /\ observation_bounds = <<>>
    /\ stations = <<>>
    /\ dataset = EmptyDataset
    /\ raised = "none"

\* extract_historical_year up to line 90 on the file arg.file.
CallHeaders ==
    /\ pc = "call"
    /\ LET r == ReadYearFile(Lines(arg.file))
       IN  /\ out' = [called |-> TRUE, exc |-> r.exc, extra |-> r.extra, sdf |-> r.sdf]
           /\ pc' = IF r.exc = "none" THEN "read" ELSE "handler"
    /\ UNCHANGED <<callVars, arg, calls, loopVars, metaVars, dataset, raised>>

NextHeaders == CallHeaders

SpecHeaders == InitHeaders /\ [][NextHeaders]_vars

\* ================================================================ the claims
\* get_station_records has returned: dataset holds what it returned
\* (add_latitude_longitude changes latitude and longitude only).
RecordsReturned ==
    /\ op \in {"get_station_records", "fetch_data"}
    /\ pc \notin {"loop", "years"}
    /\ raised \notin FailureKind

\* The year tasks of station s have been joined.
Joined(s) == fetched[s] # <<>>

\* The positions in years whose task returned a dataset for station s.
Successes(s) == {i \in DOMAIN fetched[s] : ~fetched[s][i].none}

Failures(s) == {i \in DOMAIN fetched[s] : fetched[s][i].none}

TimesOf(batch) == {batch.recs[k].time : k \in DOMAIN batch.recs}

\* The positions in years whose batch for station s holds a record for t.
Batches(s, t) == {i \in Successes(s) : t \in TimesOf(fetched[s][i])}

\* The first of them in the order of the results list.
FirstBatch(s, t) == CHOOSE i \in Batches(s, t) : \A j \in Batches(s, t) : i <= j

\* The value batch b holds for time t.
RecordValue(b, t) == b.recs[CHOOSE k \in DOMAIN b.recs : b.recs[k].time = t].WTMP

\* Station s is on the station_id axis of the dataset.
Present(s) == s \in Range(dataset.station_id)

\* The station dataset of s is in xxsdf.
Collecting == pc \in {"loop", "years"}
InXxsdf(s) == \E k \in DOMAIN xxsdf : xxsdf[k].station_id = s

\* fetch_station_historical_bounds has returned and stations is the table
\* get_buoy_stations built from it.
LocationErrors == {"AttributeError", "KeyError", "IndexError"}
BoundsReturned ==
    \/ pc \in {"location", "region"}
    \/ pc = "done" /\ op = "fetch_data" /\ add_location
    \/ pc = "raised" /\ raised \in LocationErrors

\* Bounds discovery of buoy s ended unknown.
BoundsUnknown(s) ==
    \E k \in DOMAIN observation_bounds :
        /\ observation_bounds[k].station_id = s
        /\ ~observation_bounds[k].bounds.known

BoundsKnown(s) ==
    \E k \in DOMAIN observation_bounds :
        /\ observation_bounds[k].station_id = s
        /\ observation_bounds[k].bounds.known

\* C1: a station with exactly one successful year (all its other years
\* failed) is in the returned dataset with exactly the records of that year,
\* and no error is raised.
C1_OneSuccessfulYearIsReturned ==
    RecordsReturned =>
        \A s \in Range(station_list) :
            Cardinality(Successes(s)) = 1 =>
                LET b == fetched[s][CHOOSE i \in Successes(s) : TRUE]
                IN  /\ raised = "none"
                    /\ Present(s)
                    /\ \A t \in Range(dataset.time) :
                           dataset.WTMP[s][t] =
                               IF t \in TimesOf(b) THEN RecordValue(b, t) ELSE NaN
                    /\ TimesOf(b) \subseteq Range(dataset.time)

\* C2: a failed (station, year) task never raises out of get_station_records,
\* every other year of every station is still fetched, and every year that
\* was fetched successfully appears in the result, in both modes.
C2_FailuresAreIsolated ==
    /\ raised \notin FailureKind
    /\ (RecordsReturned /\ \E s \in Station : Failures(s) # {}) =>
           \A s \in Range(station_list) :
               /\ Len(fetched[s]) = Len(years)
               /\ \A i \in Successes(s) :
                      /\ Present(s)
                      /\ \A t \in TimesOf(fetched[s][i]) :
                             /\ t \in Range(dataset.time)
                             /\ dataset.WTMP[s][t] # NaN

\* C3: a station whose every requested year failed is not on the station_id
\* axis of the returned dataset, and every station on the axis has at least
\* one successfully fetched year.
C3_FailedStationAbsent ==
    RecordsReturned =>
        \A s \in Station :
            /\ (Joined(s) /\ Successes(s) = {}) => ~Present(s)
            /\ Present(s) => (Joined(s) /\ Successes(s) # {})

C3_Witness ==
    /\ RecordsReturned
    /\ \E s \in Station : Joined(s) /\ Successes(s) = {} /\ ~Present(s)
    /\ \E s \in Station : Present(s)

\* C4: a timestamp that occurs in the batches of two or more successful
\* years of a station has exactly one record in the station's series, and
\* the time axis of every series (and of the merged dataset) is strictly
\* increasing.
C4_DedupLaw ==
    /\ \A k \in DOMAIN xxsdf :
           /\ \A n \in 1..(Len(xxsdf[k].recs) - 1) :
                  xxsdf[k].recs[n].time < xxsdf[k].recs[n + 1].time
           /\ \A t \in Day :
                  Cardinality(Batches(xxsdf[k].station_id, t)) >= 2 =>
                      Cardinality({n \in DOMAIN xxsdf[k].recs :
                                       xxsdf[k].recs[n].time = t}) = 1
    /\ \A s \in Station, t \in Day :
           Cardinality(Batches(s, t)) >= 2 =>
               /\ Collecting => InXxsdf(s)
               /\ RecordsReturned => (Present(s) /\ t \in Range(dataset.time))
    /\ \A n \in 1..(Len(dataset.time) - 1) : dataset.time[n] < dataset.time[n + 1]

C4_Witness ==
    /\ Collecting
    /\ \E k \in DOMAIN xxsdf :
           /\ Len(xxsdf[k].recs) = 2
           /\ \E t \in Day : Cardinality(Batches(xxsdf[k].station_id, t)) >= 2

\* C5: the record kept for a timestamp that occurs in several batches is the
\* one of the first batch, in the order of the results list, that holds the
\* timestamp; it carries that batch's value and nothing of the later ones.
C5_FirstOccurrenceKept ==
    /\ \A k \in DOMAIN xxsdf :
           \A n \in DOMAIN xxsdf[k].recs :
               LET s == xxsdf[k].station_id
                   t == xxsdf[k].recs[n].time
               IN  /\ Batches(s, t) # {}
                   /\ xxsdf[k].recs[n].WTMP =
                          RecordValue(fetched[s][FirstBatch(s, t)], t)
    /\ RecordsReturned =>
           \A s \in Range(dataset.station_id), t \in Range(dataset.time) :
               dataset.WTMP[s][t] =
                   IF Batches(s, t) = {} THEN NaN
                   ELSE RecordValue(fetched[s][FirstBatch(s, t)], t)

C5_Witness ==
    /\ RecordsReturned
    /\ \E s \in Range(dataset.station_id), t \in Range(dataset.time) :
           /\ Cardinality(Batches(s, t)) = 2
           /\ years[FirstBatch(s, t)] = 2
           /\ dataset.WTMP[s][t] = Measured(2, t)

\* C6: the list fetch_station_historical_bounds returns holds exactly one
\* entry for every buoy id it was given, whatever the order in which the
\* futures finished and were handed over, each entry being what the id's
\* future returned; the dictionary built from it has every id as a key.
C6_OneEntryPerStation ==
    BoundsReturned =>
        /\ Len(observation_bounds) = Len(BuoyIds)
        /\ \A s \in Range(BuoyIds) :
               /\ Cardinality({k \in DOMAIN observation_bounds :
                                   observation_bounds[k].station_id = s}) = 1
               /\ \E k \in DOMAIN observation_bounds :
                      observation_bounds[k] = futures[s].res
        /\ DOMAIN BoundsDict(observation_bounds) = Range(BuoyIds)

C6_Witness ==
    /\ BoundsReturned
    /\ observation_bounds[1].station_id = BuoyIds[2]
    /\ ~observation_bounds[1].bounds.known
    /\ observation_bounds[2].bounds.known

\* C7: get_historical_bounds raises nothing and returns an entry for the id
\* it was called with; when the request fails or no column is left after the
\* NA and space filters, the bounds are (nan, nan).
C7_BoundsNeverRaise ==
    out.called =>
        /\ raised = "none"
        /\ out.ret.exc = "none"
        /\ out.ret.station_id = arg.sid
        /\ (\/ arg.resp.kind # "ok"
            \/ \A c \in arg.resp.cols : c.na \/ c.space) =>
               out.ret.bounds = Unknown
        /\ out.ret.bounds.known <=> out.ret.bounds # Unknown

C7_Witness ==
    /\ out.called
    /\ arg.resp.kind = "ok"
    /\ arg.resp.cols # {}
    /\ \A c \in arg.resp.cols : c.na \/ c.space
    /\ out.ret.bounds = Unknown

\* C8: the station table holds a row for a station exactly when the station
\* is a buoy of the catalog whose bounds discovery returned known bounds, and
\* no row holds a missing min_year or max_year.
C8_UnknownBoundsExcluded ==
    BoundsReturned =>
        /\ \A s \in Range(TableIds) :
               s \in RowIds(stations) <=>
                   (TableRow(s).ttype = "Buoy" /\ BoundsKnown(s))
        /\ \A s \in Range(BuoyIds) : BoundsUnknown(s) => s \notin RowIds(stations)
        /\ \A k \in DOMAIN stations :
               stations[k].min_year # NaN /\ stations[k].max_year # NaN

C8_Witness ==
    /\ BoundsReturned
    /\ op = "list_stations"
    /\ \E s \in Range(BuoyIds) : BoundsUnknown(s) /\ s \notin RowIds(stations)
    /\ \E s \in Range(BuoyIds) : BoundsKnown(s) /\ s \in RowIds(stations)

\* C9: fetch_data (add_location true) for a station whose bounds discovery
\* failed raises nothing and returns a dataset without the station, whatever
\* its year fetches returned; the station is not in the station table.
C9_UnknownStationDoesNotRaise ==
    (op = "fetch_data" /\ add_location /\ BoundsReturned) =>
        \A s \in Range(station_list) :
            (Len(station_list) = 1 /\ BoundsUnknown(s)) =>
                /\ s \notin RowIds(stations)
                /\ raised = "none"
                /\ pc = "done" => ~Present(s)

\* C10: after add_latitude_longitude every station of the dataset carries
\* the latitude and longitude the reference row with its id holds; when a
\* station of the dataset has no reference row the call raises and no dataset
\* without latitude/longitude is returned.
C10_LocationMatchedById ==
    (op = "fetch_data" /\ add_location /\ pc \in {"done", "raised"}) =>
        /\ pc = "done" =>
               \A s \in Range(dataset.station_id) :
                   /\ s \in DOMAIN dataset.latitude
                   /\ s \in DOMAIN dataset.longitude
                   /\ \E k \in DOMAIN stations :
                          /\ stations[k].station_id = s
                          /\ stations[k].latitude = dataset.latitude[s]
                          /\ stations[k].longitude = dataset.longitude[s]
        /\ (\E s \in Range(dataset.station_id) : s \notin RowIds(stations)) =>
               /\ pc = "raised"
               /\ raised = "KeyError"
               /\ dataset.latitude = <<>>

C10_Witness ==
    /\ op = "fetch_data" /\ add_location /\ pc = "done"
    /\ dataset.station_id = <<2>>
    /\ Len(stations) = 2
    /\ dataset.latitude[2] = -20

\* The calls of compute_data_coverage, and of filter_by_region, that returned.
CoverageCalls ==
    {i \in DOMAIN calls : calls[i].fn = "compute_data_coverage" /\ calls[i].exc = "none"}
FilterCalls ==
    {i \in DOMAIN calls : calls[i].fn = "filter_by_region" /\ calls[i].exc = "none"}

\* The number of non-missing WTMP values station s has in dataset ds.
NonMissing(ds, s) ==
    Cardinality({k \in DOMAIN ds.time : ds.WTMP[s][ds.time[k]] # NaN})

\* C11: after compute_data_coverage / add_variable_coverage every station of
\* the dataset has a WTMP_coverage equal to 100 times its number of
\* non-missing values divided by the length of the time axis (a time axis
\* that is not empty): 5 of 10 gives 50, all gives 100.
C11_CoverageFormula ==
    \A i \in CoverageCalls :
        LET in == calls[i].input
            cov == calls[i].ret.WTMP_coverage
        IN  /\ "WTMP_coverage" \in calls[i].ret.data_vars
            /\ DOMAIN cov = Range(in.station_id)
            /\ Len(in.time) > 0 =>
                   \A s \in Range(in.station_id) :
                       /\ cov[s].den > 0
                       /\ cov[s].num * Len(in.time) = 100 * NonMissing(in, s) * cov[s].den
                       /\ (2 * NonMissing(in, s) = Len(in.time)) =>
                              cov[s] = [num |-> 50, den |-> 1]
                       /\ (NonMissing(in, s) = Len(in.time)) =>
                              cov[s] = [num |-> 100, den |-> 1]

C11_Witness ==
    \E i \in CoverageCalls :
        /\ Len(calls[i].input.time) = 2
        /\ Len(calls[i].input.station_id) = 2
        /\ calls[i].ret.WTMP_coverage[1] = [num |-> 50, den |-> 1]
        /\ calls[i].ret.WTMP_coverage[2] = [num |-> 100, den |-> 1]

\* C12: compute_data_coverage applied to its own result with the same
\* variable returns the same coverage values, and the set of data variables
\* (and their number) is what it was after the first call.
C12_CoverageIdempotent ==
    \A i \in CoverageCalls :
        (i + 1 \in CoverageCalls /\ calls[i + 1].variable = calls[i].variable) =>
            /\ calls[i + 1].ret.WTMP_coverage = calls[i].ret.WTMP_coverage
            /\ calls[i + 1].ret.data_vars = calls[i].ret.data_vars
            /\ Cardinality(calls[i + 1].ret.data_vars) =
                   Cardinality(calls[i].ret.data_vars)
            /\ calls[i + 1].ret = calls[i].ret

C12_Witness ==
    /\ Len(calls) = 2
    /\ CoverageCalls = {1, 2}
    /\ calls[1].input.data_vars = {"WTMP"}
    /\ calls[2].ret.data_vars = {"WTMP", "WTMP_coverage"}
    /\ \E s \in Range(calls[2].ret.station_id) :
           calls[2].ret.WTMP_coverage[s] = [num |-> 50, den |-> 1]

\* C13: compute_data_coverage on a dataset whose time axis has length zero
\* ends in an exception that reaches the caller, and no call returns a
\* dataset with a NaN or infinite coverage.
C13_EmptyTimeAxisRaises ==
    \A i \in DOMAIN calls :
        calls[i].fn = "compute_data_coverage" =>
            /\ Len(calls[i].input.time) = 0 => calls[i].exc # "none"
            /\ calls[i].exc = "none" =>
                   \A s \in DOMAIN calls[i].ret.WTMP_coverage :
                       calls[i].ret.WTMP_coverage[s].den # 0

\* C14: filter_by_region / box_filter_buoys keep exactly the stations with
\* lon_min <= longitude <= lon_max and lat_min <= latitude <= lat_max, in
\* their order: a station on a bound is kept, a station outside on either
\* axis is dropped, and the global bounds keep every station.
C14_InclusiveBox ==
    \A i \in FilterCalls :
        LET in  == calls[i].input
            b   == calls[i].box
            ret == calls[i].ret
        IN  /\ \A s \in Range(in.station_id) :
                   s \in Range(ret.station_id) <=>
                       /\ b.lon1 <= in.longitude[s] /\ in.longitude[s] <= b.lon2
                       /\ b.lat1 <= in.latitude[s] /\ in.latitude[s] <= b.lat2
            /\ Range(ret.station_id) \subseteq Range(in.station_id)
            /\ b = [lon1 |-> -180, lon2 |-> 180, lat1 |-> -90, lat2 |-> 90] =>
                   ret.station_id = in.station_id
            /\ \A s \in Range(ret.station_id) :
                   /\ ret.latitude[s] = in.latitude[s]
                   /\ ret.longitude[s] = in.longitude[s]
                   /\ ret.WTMP[s] = in.WTMP[s]
            /\ DOMAIN ret.WTMP = Range(ret.station_id)

C14_Witness ==
    \E i \in FilterCalls :
        /\ calls[i].box = ScenarioBox
        /\ calls[i].input.station_id = <<1, 2>>
        /\ calls[i].input.latitude[1] = 30 /\ calls[i].input.longitude[1] = -60
        /\ calls[i].input.latitude[2] = 35 /\ calls[i].input.longitude[2] = -75
        /\ calls[i].ret.station_id = <<2>>

\* C15: filter_by_region applied with the same bounds to its own result
\* returns that result: the same stations with the same values.
C15_FilterIdempotent ==
    \A i \in FilterCalls :
        (i + 1 \in FilterCalls /\ calls[i + 1].box = calls[i].box) =>
            /\ calls[i + 1].input = calls[i].ret
            /\ calls[i + 1].ret = calls[i].ret

C15_Witness ==
    /\ Len(calls) = 2
    /\ FilterCalls = {1, 2}
    /\ calls[1].box = ScenarioBox /\ calls[2].box = ScenarioBox
    /\ Len(calls[1].input.station_id) = 2
    /\ Len(calls[1].ret.station_id) = 1
    /\ Len(calls[1].input.time) = 2
    /\ calls[2].ret = calls[1].ret

\* C16: list_stations called with a region returns only stations whose
\* latitude and longitude lie inside the region, bounds inclusive, a key the
\* region does not hold standing for the global bound of that side, with
\* data_format "xarray" and with data_format "pandas".
C16_RegionHonoured ==
    (op = "list_stations" /\ pc = "done" /\ ~region.none) =>
        \A k \in DOMAIN stations :
            /\ ("lon_min" \in DOMAIN region.dict) =>
                   stations[k].longitude >= region.dict["lon_min"]
            /\ ("lon_max" \in DOMAIN region.dict) =>
                   stations[k].longitude <= region.dict["lon_max"]
            /\ ("lat_min" \in DOMAIN region.dict) =>
                   stations[k].latitude >= region.dict["lat_min"]
            /\ ("lat_max" \in DOMAIN region.dict) =>
                   stations[k].latitude <= region.dict["lat_max"]
            /\ stations[k].longitude >= -180 /\ stations[k].longitude <= 180
            /\ stations[k].latitude >= -90 /\ stations[k].latitude <= 90

\* extract_historical_year returned a batch for the table it was given.
BatchReturned == out.called /\ ~out.ret.none

\* The rows of the raw table that fall on day d, and those of them whose raw
\* WTMP is no sentinel.
RowsOfDay(d) == {k \in DOMAIN arg.raw.rows : arg.raw.rows[k].DD = d}
Samples(d) == {k \in RowsOfDay(d) : arg.raw.rows[k].WTMP \notin {99, 999, 9999}}

RECURSIVE SumRaw(_)
SumRaw(K) ==
    IF K = {} THEN 0
    ELSE LET k == CHOOSE x \in K : TRUE
         IN  arg.raw.rows[k].WTMP + SumRaw(K \ {k})

\* C17: a raw WTMP of 99, 999 or 9999 is missing: the value of a day's
\* bucket is the average of the day's other samples alone (the sentinel
\* counts neither as itself nor as zero), and a bucket whose samples are all
\* sentinels is missing, not zero.
C17_SentinelsAreMissing ==
    (BatchReturned /\ arg.raw.has_WTMP) =>
        \A n \in DOMAIN out.ret.recs :
            LET d == out.ret.recs[n].time
                v == out.ret.recs[n].WTMP
            IN  IF Samples(d) = {}
                THEN v = FloatNaN
                ELSE /\ v.den > 0
                     /\ v.num * Cardinality(Samples(d)) = SumRaw(Samples(d)) * v.den

C17_Witness ==
    /\ BatchReturned
    /\ Len(out.ret.recs) = 1
    /\ Cardinality(RowsOfDay(out.ret.recs[1].time)) = 2
    /\ Cardinality(Samples(out.ret.recs[1].time)) = 1
    /\ \E k \in DOMAIN arg.raw.rows : arg.raw.rows[k].WTMP = 9999
    /\ out.ret.recs[1].WTMP = [num |-> 5, den |-> 1]

\* C18: when the year's table has no WTMP column extract_historical_year
\* returns None, with display_error set and with display_error not set.
C18_MissingVariableYieldsNone ==
    (out.called /\ ~arg.raw.has_WTMP) => out.ret.none

\* C19: every timestamp is built with hour 1 when the table has no hour
\* column and with minute 0 when it has no minute column, and with the row's
\* own hour and minute when it has the column.
C19_HourMinuteDefaults ==
    out.called =>
        \A k \in DOMAIN out.time :
            out.time[k] # NaT =>
                /\ out.time[k].hour =
                       IF arg.raw.has_hh THEN arg.raw.rows[k].hh ELSE 1
                /\ out.time[k].minute =
                       IF arg.raw.has_mm THEN arg.raw.rows[k].mm ELSE 0

C19_Witness ==
    /\ BatchReturned
    /\ ~arg.raw.has_hh /\ arg.raw.has_mm
    /\ Len(out.time) = 2
    /\ out.time[1].hour = 1 /\ out.time[1].minute = 30
    /\ out.time[2].hour = 1 /\ out.time[2].minute = 0

\* C20: every row's timestamp has the year value + 1900 when the row's year
\* value is below 100 and the year value itself when it is 100 or more,
\* whether the year column is spelled YY, #YY or YYYY.
C20_YearRebasedByValue ==
    (out.called /\ out.sdf # <<>>) =>
        /\ Len(out.time) = Len(arg.raw.rows)
        /\ \A k \in DOMAIN out.time :
               out.time[k].year =
                   IF arg.raw.year < 100 THEN arg.raw.year + 1900 ELSE arg.raw.year

\* Every requested (station, year) fetch of the call has failed.
AllFetchesFailed ==
    \A s \in Range(station_list) : Joined(s) /\ Successes(s) = {}

\* C29: when every requested (station, year) fetch fails, fetch_data with
\* add_location true raises nothing and returns a dataset without any
\* station, whose (empty) station ids the caller can read.
C29_AllFailedReturnsEmpty ==
    (op = "fetch_data" /\ add_location /\ AllFetchesFailed) =>
        /\ pc # "raised"
        /\ raised = "none"
        /\ pc = "done" => dataset.station_id = <<>>

\* C28: the sentinel scrubbing leaves the date and time fields as the file
\* holds them: a year, day, hour or minute of 99, 999 or 9999 reaches the
\* timestamp unchanged (a two-digit year 99 gives 1999), and the year file
\* is not turned into None because of it.
C28_DateFieldsNotScrubbed ==
    (out.called /\ out.sdf # <<>>) =>
        /\ \A k \in DOMAIN out.sdf :
               /\ out.sdf[k].year =
                      IF arg.raw.ycol = "YY" THEN 1900 + arg.raw.year ELSE arg.raw.year
               /\ out.sdf[k].day = arg.raw.rows[k].DD
               /\ arg.raw.has_hh => out.sdf[k].hour = arg.raw.rows[k].hh
               /\ arg.raw.has_mm => out.sdf[k].minute = arg.raw.rows[k].mm
        /\ (arg.raw.ycol = "YY" /\ arg.raw.year = 99) =>
               /\ ~out.ret.none
               /\ \A k \in DOMAIN out.time : out.time[k].year = 1999

\* C27: the bounds get_historical_bounds returns for a station with
\* available year keys are two of these keys (a key with a space, or whose
\* first-row locator is missing, is none of them), and every available year
\* lies between min_year and max_year as a number.
C27_BoundsAreEarliestAndLatest ==
    (out.called /\ arg.resp.kind = "ok") =>
        LET keys == {c.key : c \in {x \in arg.resp.cols : ~x.na /\ ~x.space}}
        IN  keys # {} =>
                /\ out.ret.bounds.known
                /\ out.ret.bounds.min_year \in keys
                /\ out.ret.bounds.max_year \in keys
                /\ \A y \in keys : /\ out.ret.bounds.min_year <= y
                                     /\ y <= out.ret.bounds.max_year


\* The station series of the first n stations of station_list, built one
\* station after the other from what the calls for the (station, year) pairs
\* returned, the years in the order of the years argument.
OutcomeOf(s, i) == (CHOOSE o \in outcome : o.sid = s /\ o.yr = years[i]).ret

RECURSIVE SequentialRecords(_)
SequentialRecords(n) ==
    IF n = 0 THEN <<>>
    ELSE Collected(station_list[n],
                   [i \in YearIdx |-> OutcomeOf(station_list[n], i)],
                   SequentialRecords(n - 1))

\* C22: one fetch task per requested year of a station, no more and no less;
\* in the parallel mode at most max(cpu_count - 1, 1) of them run at any
\* moment; in the debugging mode at most one runs and the years are
\* processed in the order of the years argument.
C22_BoundedDispatch ==
    /\ pc = "years" =>
           /\ DOMAIN task = DOMAIN years
           /\ ~debugging =>
                  Cardinality(Running) <= (IF cpu_count - 1 >= 1 THEN cpu_count - 1 ELSE 1)
           /\ debugging =>
                  /\ Cardinality(Running) <= 1
                  /\ \A i, j \in YearIdx :
                         (i < j /\ task[j].st = "done") => task[i].st = "done"
    /\ \A s \in Station :
           /\ Cardinality({o \in outcome : o.sid = s}) <= Len(years)
           /\ \A o, q \in outcome : (o.sid = q.sid /\ o.yr = q.yr) => o = q
           /\ Joined(s) =>
                  {o.yr : o \in {q \in outcome : q.sid = s}} = Range(years)

C22_Witness ==
    /\ pc = "years"
    /\ ~debugging
    /\ cpu_count = 1
    /\ Cardinality(Running) = 1
    /\ \E i \in YearIdx : task[i].st = "queued"

\* C23: the collection of a station's batches happens only when every year
\* task of the station is done; a year task starts only when all stations
\* before its own have been joined, and it runs with the id of the station
\* the loop is at; the merge happens only when every station of the list has
\* been joined.
C23_JoinBarrier ==
    [][/\ (fetched' # fetched \/ Len(xxsdf') > Len(xxsdf)) =>
              /\ pc = "years"
              /\ \A i \in YearIdx : task[i].st = "done"
       /\ \A i \in DOMAIN task \cap DOMAIN task' :
              /\ (task[i].st = "queued" /\ task'[i].st # "queued") =>
                     /\ \A k \in 1..(si - 1) : Joined(station_list[k])
                     /\ ~Joined(station_list[si])
                     /\ task'[i].sid = station_list[si]
              /\ (task[i].st = "running" /\ task'[i].st = "done") =>
                     /\ task'[i].sid = task[i].sid
                     /\ task[i].sid = station_list[si]
       /\ (pc = "loop" /\ pc' \notin {"loop", "years"}) =>
              /\ \A s \in Range(station_list) : Joined(s)
              /\ dataset' = xr_merge(xxsdf)
      ]_vars

C23_Witness ==
    /\ pc = "years"
    /\ ~debugging
    /\ si = 2
    /\ Joined(station_list[1])
    /\ InXxsdf(station_list[1])
    /\ \E i \in YearIdx : task[i].st = "running" /\ task[i].sid = station_list[2]
    /\ \E i \in YearIdx : task[i].st = "queued"

\* C24: the returned dataset is the one built from what the (station, year)
\* calls returned, taken station by station and year by year in the order of
\* the arguments: it is the same in the debugging mode and for every order
\* in which the concurrent year tasks start and finish, the record kept for
\* a timestamp of several batches included.
C24_OrderIndependent ==
    (RecordsReturned /\ pc # "raised") =>
        LET seq == xr_merge(SequentialRecords(Len(station_list)))
        IN  /\ dataset.station_id = seq.station_id
            /\ dataset.time = seq.time
            /\ dataset.WTMP = seq.WTMP

\* Both year tasks of a station ran at once, the second finished first, and
\* their batches share a timestamp.
C24_Witness ==
    /\ RecordsReturned
    /\ pc = "done"
    /\ ~debugging
    /\ \E s \in Range(dataset.station_id), t \in Range(dataset.time) :
           /\ Cardinality(Batches(s, t)) = 2
           /\ dataset.WTMP[s][t] = Measured(years[1], t)
           /\ years[1] = 2

\* The station's series has been built from the two year files.
SeriesBuilt == op = "get_station_records" /\ out.called /\ pc = "done"

\* The raw samples of both files that fall on day d and are no sentinel, and
\* their sum.
SeriesSamples(d) ==
    {x \in (1..2) \X (1..MaxRows) :
        /\ x[2] \in DOMAIN arg.files[x[1]].rows
        /\ arg.files[x[1]].rows[x[2]].DD = d
        /\ arg.files[x[1]].rows[x[2]].WTMP \notin {99, 999, 9999}}

RECURSIVE SumSeries(_)
SumSeries(K) ==
    IF K = {} THEN 0
    ELSE LET x == CHOOSE y \in K : TRUE
         IN  arg.files[x[1]].rows[x[2]].WTMP + SumSeries(K \ {x})

\* C25: the value of a day's bucket of the station's series is the average
\* of all raw samples of the day that are no sentinel, from both year files,
\* and it is missing only when the day has no such sample.
C25_BucketIsMeanOfAllSamples ==
    SeriesBuilt =>
        \A k \in DOMAIN xxsdf : \A n \in DOMAIN xxsdf[k].recs :
            LET d == xxsdf[k].recs[n].time
                v == xxsdf[k].recs[n].WTMP
            IN  IF SeriesSamples(d) = {}
                THEN v = FloatNaN
                ELSE /\ v.den > 0
                     /\ v.num * Cardinality(SeriesSamples(d)) =
                            SumSeries(SeriesSamples(d)) * v.den

\* C26: the time axis of the station's series has one bucket for every day
\* from its first to its last record, also when the two year files leave
\* days between them; a day without samples is a missing value on the axis.
C26_BucketCountIsSpan ==
    SeriesBuilt =>
        \A k \in DOMAIN xxsdf :
            LET recs == xxsdf[k].recs
            IN  recs # <<>> =>
                    /\ Len(recs) = recs[Len(recs)].time - recs[1].time + 1
                    /\ \A d \in recs[1].time..recs[Len(recs)].time :
                           \E n \in DOMAIN recs : recs[n].time = d

\* C21: has_extra_headers is true exactly when a token of the line directly
\* below the column names is no number; the read then leaves out that line
\* and no other, and otherwise leaves out none: the table holds every data
\* row of the file, in order, and no units line.
C21_HeaderSniffing ==
    (op = "read_year_file" /\ out.called /\ Lines(arg.file) # <<>>) =>
        LET lines == Lines(arg.file)
        IN  /\ out.exc = "none"
            /\ out.extra = (\E c \in Columns : lines[1][c].text)
            /\ out.extra => /\ Len(out.sdf) = Len(lines) - 1
                            /\ \A k \in DOMAIN out.sdf : out.sdf[k] = lines[k + 1]
            /\ ~out.extra => out.sdf = lines
            /\ out.sdf = arg.file.data
            /\ \A k \in DOMAIN out.sdf : \A c \in Columns : ~out.sdf[k][c].text

\* A units line that begins with a number, over two data rows.
C21_Witness ==
    /\ op = "read_year_file"
    /\ out.called
    /\ out.extra
    /\ arg.file.units # <<>>
    /\ ~arg.file.units[1][1].text
    /\ Len(arg.file.data) = 2
    /\ Len(out.sdf) = 2

====
